---- MODULE Spec2Model ----
(***************************************************************************)
(* Model of the resumable folder-copy engine: copy(), FileService,         *)
(* Util.cleanup / Util.saveState, Timer, TriggerService and the user       *)
(* operations setStopFlag and resume.                                      *)
(*                                                                         *)
(* One invocation of copy() is a sequence of steps; the unit between two   *)
(* suspension checks is one item (copy call + timer.update).  Invocations  *)
(* run one at a time; the persisted checkpoint (doc) is the only hand-off  *)
(* between them.                                                           *)
(***************************************************************************)
EXTENDS Integers, Sequences, FiniteSets, TLC

VARIABLES
    tree,          \* the source tree: parent and kind of every item
    pc,            \* position of the running copy() invocation, "idle" if none
    properties,    \* the in-memory Properties object of the invocation
    doc,           \* the persisted properties document (the checkpoint)
    docTrashed,    \* the properties document has been moved to the trash
    fileList,      \* local variable fileList of copy()
    currFolder,    \* local variable currFolder of copy()
    timer,         \* the Timer of the invocation
    stopFlag,      \* user property 'stop' ('true' / 'false')
    triggerId,     \* user property 'triggerId'
    triggers,      \* project triggers that are scheduled and have not fired
    firedTriggers, \* project triggers that fired and were not deleted yet
    manualStart,   \* the client calls copy() itself after initialize / resume
    resumes,       \* number of resume() calls so far
    drive,         \* destination items created by copy / insert calls
    permFailed,    \* ids logged as permanent failures (logCopyError)
    logComplete,   \* the log sheet is marked 'Complete'
    seen,          \* ids that a listing call has returned so far
    fails,         \* number of copy / folder-creation calls that threw
    owed,          \* folders that were in pending when a call of this invocation threw
    attempts,      \* copy / folder-creation calls issued so far for every source item
    copyPermissions, \* option copyPermissions of the job (properties.copyPermissions)
    newfile,       \* local variable newfile of processFileList
    permCalls,     \* copyPermissions calls issued: source id, destination id
    duration,      \* delay of the trigger created by the running invocation
    saveFailures,  \* number of Properties.save calls that threw
    listFailed,    \* folders for which a call of getFiles threw
    saveStateLog,  \* what the last call of Util.saveState wrote to the log sheet
    saveOutcome,   \* what Properties.save did in that call
    trials,        \* user property 'trials': invocations whose load failed
    startFailures, \* invocations that an error ended before handleLeftovers, by cause
    gds,           \* a GDriveService instance (the rate limiter) and its last calls
    ini,           \* a call of initialize(options): options, position, remote calls
    acl,           \* a call of copyPermissions(srcId, owners, destId)
    backoff,       \* a call of Util.exponentialBackoff(func, errorMsg)
    desc           \* a call of FileService.isDescendant(maybeChildIDs, maybeParentID)

vars == << tree, pc, properties, doc, docTrashed, fileList, currFolder, timer,
           stopFlag, triggerId, triggers, firedTriggers, manualStart, resumes,
           drive, permFailed, logComplete, seen, fails, owed, attempts,
           copyPermissions, newfile, permCalls, duration, saveFailures,
           listFailed, saveStateLog, saveOutcome, trials, startFailures, gds, ini, acl,
           backoff, desc >>

-----------------------------------------------------------------------------
(* Bounds of the model *)

PageSize == 3      \* items per listing page (stands for maxResults)
MaxFail == 4       \* copy calls that may throw over the whole job
MaxDur == 2        \* longest duration of one item, in ticks
MaxResume == 1     \* resume() calls
MaxListDur == 2    \* longest duration of one listing call, in ticks
MaxSaveFail == 1   \* Properties.save calls that may throw
MaxCalls == 4      \* calls through one GDriveService instance
MaxStartFail == 2  \* invocations that end before handleLeftovers
MaxIds == 3        \* length of the list handed to isDescendant

(* Program constants.  Time is counted in ticks; one quantum is 2 ticks.   *)
MAX_RUNTIME == 2
MAX_RUNTIME_PER_DAY == 6
maxNumberOfAttempts == 3
sixMinutes == 3             \* Timer.sixMinutes, a little more than one quantum
oneDay == 600               \* Timer.oneDay
minElapsed == 100           \* GDriveService.minElapsed, in milliseconds

Root == 0          \* id of the source root folder (options.srcFolderID)
Undef == -1        \* JavaScript undefined / null
NoToken == << Undef, 0 >>   \* no nextPageToken

\* destination ids: << s, n >> is the n-th item created for source item s
DestRoot == << Root, 1 >>
UndefDest == << Undef, 0 >>

Min(a, b) == IF a < b THEN a ELSE b

-----------------------------------------------------------------------------
(* The source tree and the remote listing *)

\* item i has parent[i] (the root or a folder), is a folder iff folder[i], and its
\* mimeType is one of nativeMimeTypes iff native[i] (a folder's always is)
TreeWide ==     \* root: folder 1, files 2, 3 and 4
    [ parent |-> << 0, 0, 0, 0 >>, folder |-> << TRUE, FALSE, FALSE, FALSE >>,
      native |-> << TRUE, TRUE, FALSE, TRUE >> ]
TreeDeep ==     \* root: folder 1; folder 1: files 2 and 3
    [ parent |-> << 0, 1, 1 >>, folder |-> << TRUE, FALSE, FALSE >>,
      native |-> << TRUE, FALSE, TRUE >> ]
TreeMixed ==    \* root: folder 1, file 2; folder 1: folder 3
    [ parent |-> << 0, 0, 1 >>, folder |-> << TRUE, FALSE, TRUE >>,
      native |-> << TRUE, TRUE, TRUE >> ]

TreeSmall ==    \* root: folder 1 (empty), file 2
    [ parent |-> << 0, 0 >>, folder |-> << TRUE, FALSE >>,
      native |-> << TRUE, TRUE >> ]

Trees == { TreeWide, TreeDeep, TreeMixed, TreeSmall }

Ids == DOMAIN tree.parent

ParentOf(i) == tree.parent[i]

IsFolder(i) == tree.folder[i]

\* this.nativeMimeTypes.indexOf(item.mimeType) !== -1
IsNative(i) == tree.native[i]

RECURSIVE SortedSeq(_)
SortedSeq(S) ==
    IF S = {} THEN << >>
    ELSE LET m == CHOOSE x \in S : \A y \in S : x <= y
         IN  << m >> \o SortedSeq(S \ {m})

\* children of folder f in the order the listing returns them
Children(f) == SortedSeq({ i \in Ids : ParentOf(i) = f })

\* page k (0-based) of the listing of f, and the cursor that follows it
PageIds(f, k) ==
    SubSeq(Children(f), k * PageSize + 1, Min((k + 1) * PageSize, Len(Children(f))))

NextToken(f, k) ==
    IF (k + 1) * PageSize < Len(Children(f)) THEN << f, k + 1 >> ELSE NoToken

\* a listed item as the engine holds it: no attempt counter yet
FreshItem(i) == [ id |-> i, numberOfAttempts |-> 0, stamp |-> 0 ]

FreshItems(s) == [ n \in 1..Len(s) |-> FreshItem(s[n]) ]

\* the FileListResource for page k of folder f
ListPage(f, k) ==
    [ present |-> TRUE, items |-> FreshItems(PageIds(f, k)), nextPageToken |-> NextToken(f, k) ]

NoList == [ present |-> FALSE, items |-> << >>, nextPageToken |-> NoToken ]

-----------------------------------------------------------------------------
(* Timer *)

\* new Timer(); `now` is Timer.now() - START_TIME, the time elapsed so far
NewTimer == [ now |-> 0, runtime |-> 0, timeIsUp |-> FALSE, stop |-> FALSE ]

\* variant of Timer.update that does not read the stop flag
TimerUpdateNoStop(elapsed, flag) ==
    [ now |-> elapsed, runtime |-> elapsed,
      timeIsUp |-> elapsed >= MAX_RUNTIME, stop |-> FALSE ]

\* Timer.update, `elapsed` ticks after START_TIME
TimerUpdate(elapsed, flag) ==
    [ now |-> elapsed, runtime |-> elapsed,
      timeIsUp |-> elapsed >= MAX_RUNTIME, stop |-> flag ]

\* variant of canContinue that ignores the stop flag
CanContinueNoStop(t) == ~t.timeIsUp

\* Timer.canContinue
CanContinue(t) == ~t.timeIsUp /\ ~t.stop

\* Properties.checkMaxRuntime
CheckMaxRuntime(p) == p.totalRuntime + MAX_RUNTIME >= MAX_RUNTIME_PER_DAY

\* variant of calculateTriggerDuration that always takes the short interval
CalculateTriggerDurationShort(p, t) == sixMinutes - t.runtime

\* Timer.calculateTriggerDuration
CalculateTriggerDuration(p, t) ==
    IF CheckMaxRuntime(p) THEN oneDay ELSE sixMinutes - t.runtime

-----------------------------------------------------------------------------
(* GDriveService: the rate limiter.  Its time is counted in milliseconds.    *)

\* new GDriveService() at time 0; the other fields record the calls made
NewGDriveService ==
    [ now |-> 0, lastRequest |-> 0, calls |-> 0, op |-> "none",
      arrival |-> Undef, slept |-> 0, lastStart |-> Undef, prevStart |-> Undef ]

\* variant of throttle that never sleeps
SleepNever(lastRequest, now) == 0

\* GDriveService.throttle called at time `now`: the argument of Utilities.sleep
\* (0 if it is not called)
Sleep(lastRequest, now) ==
    LET elapsed == now - lastRequest
    IN  IF elapsed < minElapsed THEN minElapsed - elapsed ELSE 0

\* the operations of GDriveService that call throttle
Operations ==
    { "getPermissions", "getFiles", "downloadFile", "updateFile", "insertFolder",
      "copyFile", "insertPermission", "removePermission", "getRootID" }

\* time between the end of a call and the next call of throttle
Gaps == { 0, 40, 100, 130 }

\* time a remote call takes
Durations == { 0, 70, 250 }

-----------------------------------------------------------------------------
(* initialize(): the folders of the drive, FileService.isDescendant          *)

\* parent graphs: parents[f] is the list `parents` in the metadata of folder f
GraphChain ==       \* 1 > 2 > 3, and 4, 5 on their own
    << << >>, << 1 >>, << 2 >>, << >>, << 4 >> >>
GraphTwoParents ==  \* 5 lies in 3 and in 4; 3 lies in 2; 4 lies in 1
    << << >>, << >>, << 2 >>, << 1 >>, << 3, 4 >> >>
GraphThreeParents == \* 5 lies in 2, 3 and 4; 3 and 4 lie in 2
    << << >>, << >>, << 2 >>, << 2 >>, << 2, 3, 4 >> >>

Graphs == { GraphChain, GraphTwoParents, GraphThreeParents }

Folders == 1..5

\* no call of isDescendant is modelled
NoIsDescendant ==
    [ phase |-> "none", graph |-> GraphChain, ids |-> << >>, target |-> 1,
      res |-> "none", calls |-> 0 ]

\* no call of initialize() is modelled
NoInitialize ==
    [ phase |-> "none", graph |-> GraphChain, src |-> 1, destParent |-> 1,
      copyTo |-> "same", copyPermissions |-> FALSE, calls |-> << >>,
      created |-> {}, error |-> "none" ]

\* a remote storage call: the operation and whether it is made by throttle
Call(op, throttled) == [ op |-> op, throttled |-> throttled ]

\* getMetadata(id): Drive.Files.get is called directly
GetMetadataCall == Call("getMetadata", FALSE)

RECURSIVE IsDescendantLoop(_, _, _, _, _, _, _)
RECURSIVE IsDescendant(_, _, _)

\* the second loop of isDescendant at index i (counted from 1), with the
\* indexes visited so far, the metadata calls made so far and whether a true
\* was pushed to results.  The inner loop over currentParents uses the same
\* variable i, so the next index is the number of parents plus one; an index
\* that is visited twice is visited forever ("loop").
IsDescendantLoop(g, ids, target, i, visited, calls, some) ==
    IF i > Len(ids) THEN [ res |-> IF some THEN "true" ELSE "false", calls |-> calls ]
    ELSE IF i \in visited THEN [ res |-> "loop", calls |-> calls ]
    ELSE
        LET currentParents == g[ids[i]]
            fetched == Append(calls, GetMetadataCall)
        IN  IF Len(currentParents) = 0
            THEN IsDescendantLoop(g, ids, target, i + 1, visited \cup {i}, fetched, some)
            ELSE IF \E j \in 1..Len(currentParents) : currentParents[j] = target
            THEN [ res |-> "true", calls |-> fetched ]
            ELSE
                LET r == IsDescendant(g, currentParents, target)
                IN  IF r.res = "loop"
                    THEN [ res |-> "loop", calls |-> fetched \o r.calls ]
                    ELSE IsDescendantLoop(g, ids, target, Len(currentParents) + 2,
                                          visited \cup {i}, fetched \o r.calls,
                                          some \/ r.res = "true")

\* FileService.isDescendant(maybeChildIDs, maybeParentID): the result and the
\* remote calls made
IsDescendant(g, ids, target) ==
    IF \E i \in 1..Len(ids) : ids[i] = target
    THEN [ res |-> "true", calls |-> << >> ]
    ELSE IsDescendantLoop(g, ids, target, 1, {}, << >>, FALSE)

-----------------------------------------------------------------------------
(* FileService.copyPermissions: the permissions of the source and of the copy *)

\* permission entries: an owner and a writer with an e-mail address, and a
\* link-sharing entry without one
Owner1 == [ id |-> 1, role |-> "owner", emailAddress |-> TRUE ]
Writer2 == [ id |-> 2, role |-> "writer", emailAddress |-> TRUE ]
Link3 == [ id |-> 3, role |-> "reader", emailAddress |-> FALSE ]

\* Drive.Permissions.list(srcId).items
SourcePermissions ==
    { << >>, << Owner1 >>, << Owner1, Writer2 >>, << Owner1, Writer2, Link3 >> }

\* item.owners (ids of the owners), null for the root folder
SourceOwners == { << >>, << 1 >> }

\* the permissions of the new copy, id -> role: its owner 9 and, in the
\* second case, writer 4 inherited from the destination folder
DestinationPermissions ==
    { [ x \in { 9 } |-> "owner" ],
      [ x \in { 4, 9 } |-> IF x = 9 THEN "owner" ELSE "writer" ] }

\* no call of copyPermissions is modelled
NoCopyPermissions ==
    [ phase |-> "none", source |-> << >>, owners |-> << >>,
      dest |-> [ x \in { 9 } |-> "owner" ],
      listed |-> FALSE, permissions |-> << >>, destPermissions |-> << >>,
      i |-> 1, failures |-> 0 ]

\* the permission list of the copy as Drive.Permissions.list returns it
ListOf(dest) ==
    LET ids == SortedSeq(DOMAIN dest)
    IN  [ k \in 1..Len(ids) |-> [ id |-> ids[k], role |-> dest[ids[k]] ] ]

\* a permission with the given id and role is inserted at the copy
Grant(dest, id, role) ==
    [ x \in DOMAIN dest \cup { id } |-> IF x = id THEN role ELSE dest[x] ]

\* the permission with the given id is removed from the copy
Revoke(dest, id) == [ x \in DOMAIN dest \ { id } |-> dest[x] ]

\* where copyPermissions goes on after the loop over permissions
AfterPermissions(a) == IF Len(a.owners) > 0 THEN "owners" ELSE "listDest"

-----------------------------------------------------------------------------
(* Util.exponentialBackoff *)

\* no call of exponentialBackoff is going on
NoBackoff ==
    [ status |-> "none", n |-> 0, calls |-> 0, sleeps |-> << >>,
      logged |-> << >>, result |-> "none", thrown |-> "none" ]

\* Math.round(Math.random() * 1000), in milliseconds
Jitter == { 0, 500, 1000 }

\* Math.pow(2, n) * 1000 + Math.round(Math.random() * 1000)
BackoffSleep(n, jitter) == (2 ^ n) * 1000 + jitter

\* the loop bound of exponentialBackoff: n < 6
BackoffAttempts == 6

\* a variant of exponentialBackoff that gives up one attempt earlier
BackoffLastShort == BackoffAttempts - 2

\* n == 5: the attempt after which the error is rethrown
BackoffLast == BackoffAttempts - 1

-----------------------------------------------------------------------------
(* TriggerService *)

\* TriggerService.createTrigger: duration = duration || Timer.sixMinutes
TriggerDelay(d) == IF d = 0 THEN sixMinutes ELSE d

\* the unique id of a newly created trigger
NewTriggerId ==
    CHOOSE n \in 1..(Cardinality(triggers \cup firedTriggers) + 2) :
        /\ n \notin triggers \cup firedTriggers \cup {triggerId}
        /\ \A m \in 1..(n - 1) : m \in triggers \cup firedTriggers \cup {triggerId}

\* variant of deleteTrigger that deletes nothing
DeleteTriggerNone(S, id) == S

\* TriggerService.deleteTrigger(id) applied to a set of project triggers
DeleteTrigger(S, id) == S \ {id}

-----------------------------------------------------------------------------
(* Properties and the lists processFileList works on *)

\* new Properties(): the values a load keeps for the keys the document lacks
NewProperties ==
    [ leftovers        |-> NoList,
      retryQueue       |-> << >>,
      map              |-> << >>,
      remaining        |-> << >>,
      pageToken        |-> NoToken,
      currFolderId     |-> Undef,
      totalRuntime     |-> 0,
      isOverMaxRuntime |-> FALSE ]

\* variant of initialize() that forgets options.remaining
SavedOptionsNoRemaining(src, dest) == [ NewProperties EXCEPT !.map = (src :> dest) ]

\* the checkpoint initialize() saves: the options with options.map and
\* options.remaining, as a load reads it back
SavedOptions(src, dest) ==
    [ NewProperties EXCEPT !.map = (src :> dest), !.remaining = << src >> ]

\* a checkpoint that an earlier job has left behind
PriorCheckpoint ==
    [ NewProperties EXCEPT !.map = (Root :> DestRoot),
                           !.remaining = << 1 >>,
                           !.retryQueue = << [ id |-> 2, numberOfAttempts |-> 1 ] >>,
                           !.totalRuntime = MAX_RUNTIME ]

\* no invocation has failed at its start
NoStartFailures == [ load |-> 0, createTrigger |-> 0 ]

\* new Properties() after initialize() saved options.map / options.remaining
InitialProperties ==
    [ leftovers        |-> NoList,
      retryQueue       |-> << >>,
      map              |-> (Root :> DestRoot),
      remaining        |-> << Root >>,
      pageToken        |-> NoToken,
      currFolderId     |-> Undef,
      totalRuntime     |-> 0,
      isOverMaxRuntime |-> FALSE ]

\* variant of hasSome with the length test off by one
HasSomeTwo(list) == list.present /\ Len(list.items) > 1

\* Util.hasSome(list, 'items')
HasSome(list) == list.present /\ Len(list.items) > 0

\* properties.map[id], undefined when the folder has no entry
MapGet(p, id) == IF id \in DOMAIN p.map THEN p.map[id] ELSE UndefDest

Lists == { "leftovers", "fileList", "retryQueue" }

ProcPc(which) ==
    CASE which = "leftovers"  -> "procLeftovers"
      [] which = "fileList"   -> "procFileList"
      [] which = "retryQueue" -> "procRetries"

\* the array handed to processFileList
ItemsOf(which) ==
    CASE which = "leftovers"  -> properties.leftovers.items
      [] which = "fileList"   -> fileList.items
      [] which = "retryQueue" -> properties.retryQueue

\* variant of the pop that takes the first element (items.shift())
PopShift(items) == [ item |-> Head(items), rest |-> Tail(items) ]

\* items.pop(): the last element leaves the array
Pop(items) == [ item |-> items[Len(items)], rest |-> SubSeq(items, 1, Len(items) - 1) ]

\* the Properties object after the pop, when the array belongs to it
PropsAfterPop(which, rest) ==
    CASE which = "leftovers"  -> [ properties EXCEPT !.leftovers.items = rest ]
      [] which = "fileList"   -> properties
      [] which = "retryQueue" -> [ properties EXCEPT !.retryQueue = rest ]

FileListAfterPop(which, rest) ==
    IF which = "fileList" THEN [ fileList EXCEPT !.items = rest ] ELSE fileList

\* variant of the ceiling test that allows one more attempt
OverCeilingOff(item) == item.numberOfAttempts > 0 /\ item.numberOfAttempts > maxNumberOfAttempts + 1

\* item.numberOfAttempts && item.numberOfAttempts > this.maxNumberOfAttempts
OverCeiling(item) == item.numberOfAttempts > 0 /\ item.numberOfAttempts > maxNumberOfAttempts

\* variant of the counter that is 1 after every failure
NextAttemptsOne(item) == 1

\* item.numberOfAttempts ? item.numberOfAttempts + 1 : 1
NextAttempts(item) == IF item.numberOfAttempts > 0 THEN item.numberOfAttempts + 1 ELSE 1

\* this.properties.retryQueue.unshift(entry)
Unshift(queue, entry) == << entry >> \o queue

\* variant of copyFile that does not record the new folder in properties.map
CopyFileNoMap(p, item, newId) ==
    IF IsFolder(item.id)
    THEN [ p EXCEPT !.remaining = Append(@, item.id) ]
    ELSE p

\* FileService.copyFile, success: what it changes in properties
CopyFile(p, item, newId) ==
    IF IsFolder(item.id)
    THEN [ p EXCEPT !.remaining = Append(@, item.id),
                    !.map = (item.id :> newId) @@ @ ]
    ELSE p

\* successful copy / insert calls issued for source item i so far
Copies(i) == Cardinality({ e \in drive : e.src = i })

\* the destination item a successful copy / insert call creates
NewDestItem(p, item) ==
    [ id |-> << item.id, Copies(item.id) + 1 >>,
      src |-> item.id,
      parent |-> MapGet(p, ParentOf(item.id)) ]

-----------------------------------------------------------------------------
(* Initial state: initialize() has run *)

\* the job but for what initialize() writes last: the checkpoint document, the
\* user properties and the triggers
InitJobState ==
    /\ tree \in Trees
    /\ pc = "idle"
    /\ properties = InitialProperties
    /\ docTrashed = FALSE
    /\ fileList = NoList
    /\ currFolder = Undef
    /\ timer = NewTimer
    /\ firedTriggers = {}
    /\ resumes = 0
    /\ drive = {}
    /\ permFailed = {}
    /\ logComplete = FALSE
    /\ seen = {}
    /\ fails = 0
    /\ owed = {}
    /\ attempts = [ i \in Ids |-> 0 ]
    /\ copyPermissions \in BOOLEAN
    /\ newfile = UndefDest
    /\ permCalls = {}
    /\ duration = Undef
    /\ saveFailures = 0
    /\ listFailed = {}
    /\ saveStateLog = {}
    /\ saveOutcome = "none"
    /\ startFailures = NoStartFailures

InitJob ==
    /\ InitJobState
    /\ doc = InitialProperties
    /\ stopFlag = FALSE
    /\ triggerId = Undef
    /\ triggers = {}
    /\ manualStart = TRUE
    /\ trials = 0

\* initialize() has run, nothing else is going on
Init ==
    /\ InitJob
    /\ gds = NewGDriveService /\ ini = NoInitialize /\ acl = NoCopyPermissions
    /\ backoff = NoBackoff /\ desc = NoIsDescendant

treeVars == << tree, copyPermissions >>
sideVars == << saveFailures, listFailed, gds, ini, acl, backoff, desc >>
logVars == << saveStateLog, saveOutcome >>
startVars == << trials, startFailures >>
permVars == << newfile, permCalls >>
userVars == << stopFlag, resumes >>
jobVars == << drive, permFailed, seen, fails >>
histVars == << owed, attempts >>
docVars == << doc, docTrashed, logComplete >>
triggerVars == << triggerId, triggers, firedTriggers, manualStart >>

-----------------------------------------------------------------------------
(* copy(): start of an invocation, up to the creation of the next trigger *)

\* properties.load(), then timer.update, calculateTriggerDuration, createTrigger
StartInvocation(pending, fired) ==
    LET loaded == doc
        id == NewTriggerId
    IN  /\ properties' = [ loaded EXCEPT !.isOverMaxRuntime = CheckMaxRuntime(loaded) ]
        /\ timer' = TimerUpdate(0, stopFlag)
        /\ duration' = TriggerDelay(CalculateTriggerDuration(loaded, timer'))
        /\ fileList' = NoList
        /\ currFolder' = Undef
        /\ triggers' = DeleteTrigger(pending, triggerId) \cup {id}
        /\ firedTriggers' = DeleteTrigger(fired, triggerId)
        /\ triggerId' = id
        /\ owed' = {}
        /\ UNCHANGED attempts
        /\ pc' = "handleLeftovers"

\* the scheduler fires a trigger
CopyByTrigger ==
    /\ pc = "idle"
    /\ \E t \in triggers :
        StartInvocation(triggers \ {t}, firedTriggers \cup {t})
    /\ UNCHANGED << treeVars, sideVars, logVars, startVars, permVars, userVars, jobVars, docVars, manualStart >>

\* the client calls copy() after initialize() or resume()
CopyByClient ==
    /\ pc = "idle"
    /\ manualStart
    /\ manualStart' = FALSE
    /\ StartInvocation(triggers, firedTriggers)
    /\ UNCHANGED << treeVars, sideVars, logVars, startVars, permVars, userVars, jobVars, docVars >>

-----------------------------------------------------------------------------
(* FileService.handleLeftovers / handleRetries / processFileList *)

HandleLeftovers ==
    /\ pc = "handleLeftovers"
    /\ IF HasSome(properties.leftovers)
       THEN /\ properties' = [ properties EXCEPT
                                 !.currFolderId = ParentOf(properties.leftovers.items[1].id) ]
            /\ pc' = "procLeftovers"
            /\ UNCHANGED timer
       ELSE \* copy(), line 819: timer.update
            /\ timer' = TimerUpdate(timer.now, stopFlag)
            /\ pc' = "while"
            /\ UNCHANGED properties
    /\ UNCHANGED << duration, treeVars, sideVars, logVars, startVars, permVars, histVars, userVars, jobVars, docVars, triggerVars, fileList, currFolder >>

HandleRetries ==
    /\ pc = "handleRetries"
    /\ IF Len(properties.retryQueue) > 0
       THEN /\ properties' = [ properties EXCEPT
                                 !.currFolderId = ParentOf(properties.retryQueue[1].id) ]
            /\ pc' = "procRetries"
       ELSE /\ pc' = "cleanup"
            /\ UNCHANGED properties
    /\ UNCHANGED << duration, treeVars, sideVars, logVars, startVars, permVars, histVars, userVars, jobVars, docVars, triggerVars, fileList, currFolder, timer >>

\* processFileList, the second try block: copyPermissions(item.id, item.owners,
\* newfile.id) with the function-scoped newfile; reading newfile.id of an
\* undefined newfile throws inside the try and nothing is called
PermissionCalls(item, dest) ==
    IF copyPermissions /\ IsNative(item.id) /\ dest # UndefDest
    THEN permCalls \cup { [ src |-> item.id, dest |-> dest ] }
    ELSE permCalls

\* one iteration of the loop whose item is over the attempt ceiling
ProcessItemDropped(which) ==
    /\ pc = ProcPc(which)
    /\ Len(ItemsOf(which)) > 0
    /\ CanContinue(timer)
    /\ LET popped == Pop(ItemsOf(which))
       IN  /\ OverCeiling(popped.item)
           /\ permFailed' = permFailed \cup { popped.item.id }
           /\ properties' = PropsAfterPop(which, popped.rest)
           /\ fileList' = FileListAfterPop(which, popped.rest)
    /\ UNCHANGED << duration, treeVars, sideVars, logVars, startVars, permVars, histVars, userVars, docVars, triggerVars, currFolder, timer,
                    pc, drive, seen, fails >>

\* one iteration whose copy / insert call returns
ProcessItemCopied(which) ==
    /\ pc = ProcPc(which)
    /\ Len(ItemsOf(which)) > 0
    /\ CanContinue(timer)
    /\ LET popped == Pop(ItemsOf(which))
           item == popped.item
           p1 == PropsAfterPop(which, popped.rest)
       IN  /\ ~OverCeiling(item)
           /\ drive' = drive \cup { NewDestItem(p1, item) }
           /\ properties' = CopyFile(p1, item, NewDestItem(p1, item).id)
           /\ fileList' = FileListAfterPop(which, popped.rest)
           /\ newfile' = NewDestItem(p1, item).id
           /\ attempts' = [ attempts EXCEPT ![item.id] = @ + 1 ]
           /\ permCalls' = PermissionCalls(item, NewDestItem(p1, item).id)
    /\ \E d \in 0..MaxDur : timer' = TimerUpdate(timer.now + d, stopFlag)
    /\ UNCHANGED << duration, treeVars, sideVars, logVars, startVars, owed, userVars, docVars, triggerVars, currFolder,
                    pc, permFailed, seen, fails >>

\* one iteration whose copy / insert call throws
ProcessItemThrew(which) ==
    /\ pc = ProcPc(which)
    /\ Len(ItemsOf(which)) > 0
    /\ CanContinue(timer)
    /\ fails < MaxFail
    /\ LET popped == Pop(ItemsOf(which))
           item == popped.item
           p1 == PropsAfterPop(which, popped.rest)
           entry == [ id |-> item.id,
                      numberOfAttempts |-> NextAttempts(item),
                      stamp |-> fails + 1 ]
       IN  /\ ~OverCeiling(item)
           /\ properties' = [ p1 EXCEPT !.retryQueue = Unshift(@, entry) ]
           /\ fileList' = FileListAfterPop(which, popped.rest)
           /\ permCalls' = PermissionCalls(item, newfile)
           /\ UNCHANGED newfile
           /\ attempts' = [ attempts EXCEPT ![item.id] = @ + 1 ]
    /\ fails' = fails + 1
    /\ owed' = owed \cup { properties.remaining[n] : n \in 1..Len(properties.remaining) }
    /\ \E d \in 0..MaxDur : timer' = TimerUpdate(timer.now + d, stopFlag)
    /\ UNCHANGED << duration, treeVars, sideVars, logVars, startVars, userVars, docVars, triggerVars, currFolder,
                    pc, drive, permFailed, seen >>

\* the loop of processFileList ends: the array is empty or the timer said stop
ProcessFileListEnd(which) ==
    /\ pc = ProcPc(which)
    /\ ~(Len(ItemsOf(which)) > 0 /\ CanContinue(timer))
    /\ CASE which = "leftovers" ->
              \* copy(), line 819: timer.update
              /\ timer' = TimerUpdate(timer.now, stopFlag)
              /\ pc' = "while"
         [] which = "fileList" ->
              /\ pc' = "endDo"
              /\ UNCHANGED timer
         [] which = "retryQueue" ->
              /\ pc' = "cleanup"
              /\ UNCHANGED timer
    /\ newfile' = UndefDest
    /\ UNCHANGED << duration, treeVars, sideVars, logVars, startVars, histVars, userVars, jobVars, docVars, triggerVars,
                    properties, fileList, currFolder, permCalls >>

-----------------------------------------------------------------------------
(* copy(): the traversal loop, lines 820-856 *)

\* (properties.remaining.length > 0 || Util.isSome(properties.pageToken)) && timer.canContinue()
LoopCondition(p, t) ==
    (Len(p.remaining) > 0 \/ p.pageToken # NoToken) /\ CanContinue(t)

\* properties.pageToken && properties.currFolderId
ContinuesFolder(p) == p.pageToken # NoToken /\ p.currFolderId # Undef

\* the folder the next query is issued for: properties.currFolderId or remaining.shift()
NextFolder(p) ==
    IF ContinuesFolder(p) THEN p.currFolderId
    ELSE IF Len(p.remaining) > 0 THEN Head(p.remaining) ELSE Undef

\* variant of the choice that leaves the folder in remaining
PeekRemaining(p) == p

\* properties after the choice: remaining.shift() removes the folder it returns
ShiftRemaining(p) ==
    IF ContinuesFolder(p) \/ Len(p.remaining) = 0
    THEN p
    ELSE [ p EXCEPT !.remaining = Tail(@) ]

WhileEnter ==
    /\ pc = "while"
    /\ LoopCondition(properties, timer)
    /\ currFolder' = NextFolder(properties)
    /\ properties' = ShiftRemaining(properties)
    /\ pc' = "do"
    /\ UNCHANGED << duration, treeVars, sideVars, logVars, startVars, permVars, histVars, userVars, jobVars, docVars, triggerVars, fileList, timer >>

WhileExit ==
    /\ pc = "while"
    /\ ~LoopCondition(properties, timer)
    /\ pc' = "handleRetries"
    /\ UNCHANGED << duration, treeVars, sideVars, logVars, startVars, permVars, histVars, userVars, jobVars, docVars, triggerVars,
                    properties, fileList, currFolder, timer >>

\* the cursor was produced by a listing of the folder the query names
CursorMatches(folder, token) == token = NoToken \/ token[1] = folder

\* Drive.Files.list for `folder` with cursor `token`, when the call returns:
\* the page the cursor designates, or, for a cursor of another folder's
\* listing, possibly the first page of `folder` (the cursor is ignored)
ListResults(folder, token) ==
    IF token # NoToken
    THEN { ListPage(token[1], token[2]) } \cup
         (IF token[1] # folder /\ folder # Undef THEN { ListPage(folder, 0) } ELSE {})
    ELSE IF folder = Undef THEN { [ NoList EXCEPT !.present = TRUE ] }
    ELSE { ListPage(folder, 0) }

ItemIds(items) == { items[n].id : n \in 1..Len(items) }

\* gDriveService.getFiles(query, properties.pageToken) returns a list
GetFilesReturns ==
    /\ pc = "do"
    /\ \E list \in ListResults(currFolder, properties.pageToken) :
           /\ fileList' = list
           /\ seen' = seen \cup ItemIds(list.items)
           /\ pc' = IF HasSome(list) THEN "procFileList" ELSE "endDo"
    /\ \E d \in 0..MaxListDur : timer' = [ timer EXCEPT !.now = @ + d ]
    /\ UNCHANGED << duration, treeVars, sideVars, logVars, startVars, permVars, histVars, userVars, docVars, triggerVars, properties, currFolder,
                    drive, permFailed, fails >>

\* the call is rejected: the cursor belongs to the listing of another folder;
\* fileList keeps the value of the previous call
GetFilesThrows ==
    /\ pc = "do"
    /\ ~CursorMatches(currFolder, properties.pageToken)
    /\ listFailed' = listFailed \cup { currFolder }
    /\ pc' = IF HasSome(fileList) THEN "procFileList" ELSE "endDo"
    /\ UNCHANGED << duration, treeVars, saveFailures, gds, ini, acl, backoff, desc, logVars, startVars, permVars, histVars, userVars, jobVars, docVars, triggerVars,
                    properties, fileList, currFolder, timer >>

\* the call throws for another reason (a server error, a rate limit): the
\* catch block logs the error and fileList keeps the value of the previous call
GetFilesFails ==
    /\ pc = "do"
    /\ listFailed' = listFailed \cup { currFolder }
    /\ pc' = IF HasSome(fileList) THEN "procFileList" ELSE "endDo"
    /\ \E d \in 0..MaxListDur : timer' = [ timer EXCEPT !.now = @ + d ]
    /\ UNCHANGED << duration, treeVars, saveFailures, gds, ini, acl, backoff, desc, logVars, startVars, permVars, histVars, userVars, jobVars, docVars, triggerVars,
                    properties, fileList, currFolder >>

\* lines 853-855: take over the cursor, timer.update, loop test of do..while
EndDo ==
    /\ pc = "endDo"
    /\ LET token == IF fileList.present THEN fileList.nextPageToken ELSE NoToken
           t == TimerUpdate(timer.now, stopFlag)
       IN  /\ properties' = [ properties EXCEPT !.pageToken = token ]
           /\ timer' = t
           /\ pc' = IF token # NoToken /\ CanContinue(t) THEN "do" ELSE "while"
    /\ UNCHANGED << duration, treeVars, sideVars, logVars, startVars, permVars, histVars, userVars, jobVars, docVars, triggerVars, fileList, currFolder >>

-----------------------------------------------------------------------------
(* Util.cleanup and Util.saveState *)

\* variant of saveState that never takes over the fetched page
SaveLeftoversKeep(p, list) == p.leftovers

\* fileList && fileList.items ? fileList : properties.leftovers
SaveLeftovers(p, list) == IF list.present THEN list ELSE p.leftovers

\* the properties object saveState hands to Properties.save
SaveState(p, list) ==
    LET lo == SaveLeftovers(p, list)
    IN  [ p EXCEPT !.leftovers = lo,
                   !.pageToken = IF lo.present THEN lo.nextPageToken ELSE @ ]

\* variant of the runtime accounting that leaves totalRuntime as loaded
AccountRuntimeKeep(p, t) == p

\* properties.incrementTotalRuntime and the stop message branch
AccountRuntime(p, t) ==
    LET total == p.totalRuntime + t.runtime
    IN  [ p EXCEPT !.totalRuntime =
            IF ~t.stop /\ p.isOverMaxRuntime THEN 0 ELSE total ]

\* !timer.canContinue() || properties.retryQueue.length > 0
MustSaveState(p, t) == ~CanContinue(t) \/ Len(p.retryQueue) > 0

\* outcomes of Properties.save: it returns, or it throws an error whose message
\* says that the storage quota is exceeded, or it throws another error
SaveOutcomes == { "saved", "quota", "error" }

\* variant of saveState that logs `logMessage` whatever the save did
SaveStateLogAlways(outcome) ==
    CASE outcome = "saved" -> { "logMessage" }
      [] outcome = "quota" -> { "outOfSpace", "willBeDuplicated", "logMessage" }
      [] outcome = "error" -> { "failedToSave", "logMessage" }

\* what saveState writes to the log sheet (the early return skips `logMessage`)
SaveStateLog(outcome) ==
    CASE outcome = "saved" -> { "logMessage" }
      [] outcome = "quota" -> { "outOfSpace", "willBeDuplicated" }
      [] outcome = "error" -> { "failedToSave", "logMessage" }

CleanupSave ==
    /\ pc = "cleanup"
    /\ MustSaveState(properties, timer)
    /\ LET saved == SaveState(AccountRuntime(properties, timer), fileList)
       IN  /\ properties' = saved
           /\ doc' = saved
    /\ saveOutcome' = "saved"
    /\ saveStateLog' = SaveStateLog("saved")
    /\ triggers' = IF timer.stop THEN DeleteTrigger(triggers, triggerId) ELSE triggers
    /\ firedTriggers' = IF timer.stop THEN DeleteTrigger(firedTriggers, triggerId)
                        ELSE firedTriggers
    /\ pc' = "idle"
    /\ UNCHANGED << duration, treeVars, sideVars, startVars, permVars, histVars, userVars, jobVars, docTrashed, logComplete, triggerId,
                    manualStart, fileList, currFolder, timer >>

CleanupComplete ==
    /\ pc = "cleanup"
    /\ ~MustSaveState(properties, timer)
    /\ properties' = AccountRuntime(properties, timer)
    /\ triggers' = DeleteTrigger(triggers, triggerId)
    /\ firedTriggers' = DeleteTrigger(firedTriggers, triggerId)
    /\ docTrashed' = TRUE
    /\ logComplete' = TRUE
    /\ pc' = "idle"
    /\ UNCHANGED << duration, treeVars, sideVars, logVars, startVars, permVars, histVars, userVars, jobVars, doc, triggerId, manualStart,
                    fileList, currFolder, timer >>

\* Util.cleanup when Properties.save throws in Util.saveState: the checkpoint
\* document keeps its old content; if the message says that the storage is
\* exhausted, saveState deletes the trigger
CleanupSaveFails ==
    /\ pc = "cleanup"
    /\ MustSaveState(properties, timer)
    /\ saveFailures < MaxSaveFail
    /\ saveFailures' = saveFailures + 1
    /\ properties' = SaveState(AccountRuntime(properties, timer), fileList)
    /\ \E outcome \in SaveOutcomes \ { "saved" } :
        LET del == timer.stop \/ outcome = "quota"
        IN  /\ triggers' = IF del THEN DeleteTrigger(triggers, triggerId) ELSE triggers
            /\ firedTriggers' = IF del THEN DeleteTrigger(firedTriggers, triggerId)
                                ELSE firedTriggers
            /\ saveOutcome' = outcome
            /\ saveStateLog' = SaveStateLog(outcome)
    /\ pc' = "idle"
    /\ UNCHANGED << duration, treeVars, permVars, histVars, userVars, jobVars, docVars,
                    triggerId, manualStart, fileList, currFolder, timer, listFailed, gds, ini, acl, backoff, desc,
                    startVars >>

\* the Complete branch of Util.cleanup when the call that moves the properties
\* document to the trash throws: the error is logged, the rest is carried out
CleanupCompleteTrashFails ==
    /\ pc = "cleanup"
    /\ ~MustSaveState(properties, timer)
    /\ properties' = AccountRuntime(properties, timer)
    /\ triggers' = DeleteTrigger(triggers, triggerId)
    /\ firedTriggers' = DeleteTrigger(firedTriggers, triggerId)
    /\ logComplete' = TRUE
    /\ pc' = "idle"
    /\ UNCHANGED << duration, treeVars, sideVars, logVars, startVars, permVars, histVars, userVars, jobVars, doc,
                    docTrashed, triggerId, manualStart, fileList, currFolder, timer >>

-----------------------------------------------------------------------------
(* User operations *)

SetStopFlag ==
    /\ ~stopFlag
    /\ stopFlag' = TRUE
    /\ UNCHANGED << duration, treeVars, sideVars, logVars, startVars, permVars, histVars, jobVars, docVars, triggerVars, resumes, pc, properties,
                    fileList, currFolder, timer >>

\* resume(): Properties.setUserPropertiesStore; the client then calls copy()
Resume ==
    /\ pc = "idle"
    /\ ~logComplete
    /\ triggers = {} /\ ~manualStart
    /\ resumes < MaxResume
    /\ resumes' = resumes + 1
    /\ stopFlag' = FALSE
    /\ manualStart' = TRUE
    /\ trials' = 0
    /\ UNCHANGED << duration, treeVars, sideVars, logVars, permVars, histVars, jobVars, docVars, triggerId, triggers, firedTriggers,
                    pc, properties, fileList, currFolder, timer, startFailures >>

-----------------------------------------------------------------------------

\* every step but a listing call that throws
NextNoListFault ==
    \/ CopyByTrigger
    \/ CopyByClient
    \/ HandleLeftovers
    \/ HandleRetries
    \/ \E which \in Lists : ProcessItemDropped(which)
    \/ \E which \in Lists : ProcessItemCopied(which)
    \/ \E which \in Lists : ProcessItemThrew(which)
    \/ \E which \in Lists : ProcessFileListEnd(which)
    \/ WhileEnter
    \/ WhileExit
    \/ GetFilesReturns
    \/ EndDo
    \/ CleanupSave
    \/ CleanupComplete
    \/ SetStopFlag
    \/ Resume

Next == NextNoListFault \/ GetFilesThrows

Spec == Init /\ [][Next]_vars

\* the job on the small tree (one page per folder, so that no listing call
\* carries a cursor), with updates of the checkpoint document that may throw
InitSmall == Init /\ tree = TreeSmall /\ ~copyPermissions

NextSave == NextNoListFault \/ CleanupSaveFails \/ CleanupCompleteTrashFails

SpecSave == InitSmall /\ [][NextSave]_vars

\* the job when the user requests no stop: every load and save succeeds, and
\* the scheduler fires every trigger and the platform runs every invocation
\* to its end (weak fairness of the steps)
NextLive ==
    \/ CopyByTrigger
    \/ CopyByClient
    \/ HandleLeftovers
    \/ HandleRetries
    \/ \E which \in Lists : ProcessItemDropped(which)
    \/ \E which \in Lists : ProcessItemCopied(which)
    \/ \E which \in Lists : ProcessItemThrew(which)
    \/ \E which \in Lists : ProcessFileListEnd(which)
    \/ WhileEnter
    \/ WhileExit
    \/ GetFilesReturns
    \/ GetFilesThrows
    \/ EndDo
    \/ CleanupSave
    \/ CleanupComplete

SpecLive == Init /\ [][NextLive]_vars /\ WF_vars(NextLive)

\* the job when a call of getFiles may throw, without stop and resume
NextList == NextLive \/ GetFilesFails

SpecList == Init /\ [][NextList]_vars

-----------------------------------------------------------------------------
(* copy(): invocations that end before handleLeftovers *)

\* the ways copy() is called: by a trigger that fires, or by the client
Starts ==
    { [ pending |-> triggers \ {t}, fired |-> firedTriggers \cup {t},
        manual |-> manualStart ] : t \in triggers }
    \cup IF manualStart
         THEN { [ pending |-> triggers, fired |-> firedTriggers, manual |-> FALSE ] }
         ELSE {}

\* variant of a failed load that leaves a new Properties() in the document
FailedLoadCheckpointNew(d) == [ d EXCEPT !.map = InitialProperties.map,
                                        !.remaining = InitialProperties.remaining ]

\* the properties document after an invocation whose load failed: the catch
\* block of copy() returns without a call of Properties.save
FailedLoadCheckpoint(d) == d

\* n < 5 in the catch block of copy()
MaxTrials == 5

\* variant of the test on 'trials' that always reschedules
RescheduleAlways(n) == TRUE

\* if (n < 5): the invocation whose load failed schedules another one
Reschedule(n) == n < MaxTrials

\* properties.load still throws after the retries of exponentialBackoff: below
\* the limit 'trials' is increased and createTrigger is called through
\* exponentialBackoff, which either creates the trigger or rethrows after its
\* last attempt; then copy() returns
LoadThrows ==
    /\ pc = "idle"
    /\ startFailures.load + startFailures.createTrigger < MaxStartFail
    /\ startFailures' = [ startFailures EXCEPT !.load = @ + 1 ]
    /\ \E st \in Starts, created \in BOOLEAN :
        LET id == NewTriggerId
            reschedule == Reschedule(trials)
        IN  /\ trials' = IF reschedule THEN trials + 1 ELSE trials
            /\ triggers' = DeleteTrigger(st.pending, triggerId)
                              \cup IF reschedule /\ created THEN {id} ELSE {}
            /\ firedTriggers' = DeleteTrigger(st.fired, triggerId)
            /\ triggerId' = IF reschedule /\ created THEN id ELSE triggerId
            /\ manualStart' = st.manual
    /\ doc' = FailedLoadCheckpoint(doc)
    /\ UNCHANGED << duration, treeVars, sideVars, logVars, permVars, histVars, userVars,
                    jobVars, docTrashed, logComplete, pc, properties, fileList,
                    currFolder, timer >>

\* the load succeeds and TriggerService.createTrigger(duration), which copy()
\* calls directly, throws: the error leaves copy()
CreateTriggerThrows ==
    /\ pc = "idle"
    /\ startFailures.load + startFailures.createTrigger < MaxStartFail
    /\ startFailures' = [ startFailures EXCEPT !.createTrigger = @ + 1 ]
    /\ \E st \in Starts :
        /\ properties' = [ doc EXCEPT !.isOverMaxRuntime = CheckMaxRuntime(doc) ]
        /\ timer' = TimerUpdate(0, stopFlag)
        /\ duration' = TriggerDelay(CalculateTriggerDuration(doc, timer'))
        /\ triggers' = DeleteTrigger(st.pending, triggerId)
        /\ firedTriggers' = DeleteTrigger(st.fired, triggerId)
        /\ manualStart' = st.manual
    /\ UNCHANGED << treeVars, sideVars, logVars, permVars, histVars, userVars, jobVars,
                    docVars, pc, fileList, currFolder, triggerId, trials >>

NextStart == NextNoListFault \/ LoadThrows \/ CreateTriggerThrows

\* the job on the small tree, either right after initialize() or after four
\* invocations whose load failed, the last of which has scheduled trigger 1
InitStart ==
    /\ InitJobState /\ tree = TreeSmall /\ ~copyPermissions
    /\ doc = InitialProperties /\ stopFlag = FALSE
    /\ gds = NewGDriveService /\ ini = NoInitialize /\ acl = NoCopyPermissions
    /\ backoff = NoBackoff /\ desc = NoIsDescendant
    /\ \/ /\ trials = 0 /\ triggerId = Undef /\ triggers = {} /\ manualStart = TRUE
       \/ /\ trials = MaxTrials - 1 /\ triggerId = 1 /\ triggers = {1}
          /\ manualStart = FALSE

SpecStart == InitStart /\ [][NextStart]_vars

\* resume() called while a trigger of the job is still scheduled: the same
\* Properties.setUserPropertiesStore; the client then calls copy()
ResumeWhileScheduled ==
    /\ pc = "idle"
    /\ ~logComplete
    /\ triggers # {} /\ ~manualStart
    /\ resumes < MaxResume
    /\ resumes' = resumes + 1
    /\ stopFlag' = FALSE
    /\ manualStart' = TRUE
    /\ trials' = 0
    /\ UNCHANGED << duration, treeVars, sideVars, logVars, permVars, histVars, jobVars, docVars, triggerId, triggers, firedTriggers,
                    pc, properties, fileList, currFolder, timer, startFailures >>

\* the job with resume() at any time between two invocations
NextTriggers == NextStart \/ ResumeWhileScheduled

SpecTriggers == InitStart /\ [][NextTriggers]_vars

\* the job without a stop request and with loads and saves that succeed, where
\* the creation of the next trigger may throw; only the steps of NextLive are
\* fair: a failure is never forced to happen
NextLiveTrigger == NextLive \/ CreateTriggerThrows

SpecLiveTrigger == Init /\ [][NextLiveTrigger]_vars /\ WF_vars(NextLive)

-----------------------------------------------------------------------------
(* Calls through one GDriveService instance *)

\* the variables of the copy job
jobAll == << tree, pc, properties, doc, docTrashed, fileList, currFolder, timer,
             stopFlag, triggerId, triggers, firedTriggers, manualStart, resumes,
             drive, permFailed, logComplete, seen, fails, owed, attempts,
             copyPermissions, newfile, permCalls, duration, saveFailures,
             listFailed, saveStateLog, saveOutcome, trials, startFailures >>

\* one operation of GDriveService: throttle, then the remote call
ThrottledCall ==
    /\ gds.calls < MaxCalls
    /\ \E op \in Operations, gap \in Gaps, d \in Durations :
        LET arrival == gds.now + gap
            sleep == Sleep(gds.lastRequest, arrival)
            start == arrival + sleep
        IN  gds' = [ now |-> start + d, lastRequest |-> start,
                     calls |-> gds.calls + 1, op |-> op,
                     arrival |-> arrival, slept |-> sleep,
                     lastStart |-> start, prevStart |-> gds.lastStart ]
    /\ UNCHANGED << jobAll, ini, acl, backoff, desc >>

InitThrottle ==
    /\ InitJob /\ tree = TreeSmall /\ ~copyPermissions
    /\ gds = NewGDriveService /\ ini = NoInitialize /\ acl = NoCopyPermissions
    /\ backoff = NoBackoff /\ desc = NoIsDescendant

SpecThrottle == InitThrottle /\ [][ThrottledCall]_vars

-----------------------------------------------------------------------------
(* initialize(options) *)

InitInitialize ==
    /\ InitJobState /\ tree = TreeSmall /\ ~copyPermissions
    /\ doc \in { InitialProperties, PriorCheckpoint }
    /\ stopFlag \in BOOLEAN
    /\ trials \in { 0, MaxTrials }
    /\ manualStart = FALSE
    /\ \/ triggerId = Undef /\ triggers = {}
       \/ triggerId = 1 /\ triggers = {1}
       \/ triggerId = 1 /\ triggers = {1, 2}
    /\ gds = NewGDriveService /\ acl = NoCopyPermissions
    /\ backoff = NoBackoff /\ desc = NoIsDescendant
    /\ \E g \in Graphs, s \in Folders, d \in Folders, to \in { "same", "custom", "root" },
          cp \in BOOLEAN :
        ini = [ NoInitialize EXCEPT !.phase = "start", !.graph = g, !.src = s,
                                    !.destParent = d, !.copyTo = to,
                                    !.copyPermissions = cp ]

\* the calls of FileService.copyPermissions for the new folder: the two
\* listing calls (the insert and remove calls depend on the entries)
RootPermissionCalls ==
    << Call("getPermissions", TRUE), Call("getPermissions", TRUE) >>

\* FileService.initializeDestinationFolder
InitializeDestinationFolder ==
    /\ ini.phase = "start"
    /\ LET first == IF ini.copyTo \in { "same", "custom" } THEN << >>
                    ELSE << Call("getRootID", TRUE) >>
           check == IF ini.copyTo = "custom"
                    THEN IsDescendant(ini.graph, << ini.destParent >>, ini.src)
                    ELSE [ res |-> "false", calls |-> << >> ]
           checked == first \o check.calls
           inserted == Append(checked, Call("insertFolder", TRUE))
       IN  \/ /\ check.res = "true"
              /\ ini' = [ ini EXCEPT !.phase = "failed", !.error = "Descendant",
                                     !.calls = checked ]
           \/ /\ check.res = "loop"
              /\ ini' = [ ini EXCEPT !.phase = "hung", !.calls = checked ]
           \/ /\ check.res = "false"
              /\ ~ini.copyPermissions
              /\ ini' = [ ini EXCEPT !.phase = "logger", !.calls = inserted,
                                     !.created = { "destFolder" } ]
           \/ /\ check.res = "false"
              /\ ini.copyPermissions
              /\ \E threw \in BOOLEAN :
                    ini' = [ ini EXCEPT
                               !.phase = IF threw THEN "failed" ELSE "logger",
                               !.error = IF threw THEN "copyPermissions" ELSE @,
                               !.calls = inserted \o RootPermissionCalls,
                               !.created = { "destFolder" } ]
    /\ UNCHANGED << jobAll, gds, acl, backoff, desc >>

\* FileService.createLoggerSpreadsheet
CreateLoggerSpreadsheet ==
    /\ ini.phase = "logger"
    /\ ini' = [ ini EXCEPT !.phase = "document",
                           !.calls = Append(@, Call("copyFile", TRUE)),
                           !.created = @ \cup { "log" } ]
    /\ UNCHANGED << jobAll, gds, acl, backoff, desc >>

\* FileService.createPropertiesDocument
CreatePropertiesDocument ==
    /\ ini.phase = "document"
    /\ ini' = [ ini EXCEPT !.phase = "save",
                           !.calls = Append(@, Call("insertFolder", TRUE)),
                           !.created = @ \cup { "checkpoint" } ]
    /\ UNCHANGED << jobAll, gds, acl, backoff, desc >>

\* the rest of initialize(): setUserPropertiesStore, Properties.save,
\* deleteAllTriggers
SaveAndReturn ==
    /\ ini.phase = "save"
    /\ ini' = [ ini EXCEPT !.phase = "done",
                           !.calls = Append(@, Call("updateFile", TRUE)) ]
    /\ trials' = 0
    /\ stopFlag' = FALSE
    /\ doc' = SavedOptions(ini.src, << ini.src, 1 >>)
    /\ triggers' = {}
    /\ firedTriggers' = {}
    /\ manualStart' = TRUE
    /\ UNCHANGED << tree, pc, properties, docTrashed, fileList, currFolder, timer,
                    triggerId, resumes, drive, permFailed, logComplete, seen, fails,
                    owed, attempts, copyPermissions, newfile, permCalls, duration,
                    saveFailures, listFailed,
                    saveStateLog, saveOutcome, startFailures, gds, acl, backoff, desc >>

NextInitialize ==
    \/ InitializeDestinationFolder
    \/ CreateLoggerSpreadsheet
    \/ CreatePropertiesDocument
    \/ SaveAndReturn

SpecInitialize == InitInitialize /\ [][NextInitialize]_vars

-----------------------------------------------------------------------------
(* FileService.copyPermissions(srcId, owners, destId), call by call *)

InitCopyPermissions ==
    /\ InitJob /\ tree = TreeSmall /\ ~copyPermissions
    /\ gds = NewGDriveService /\ ini = NoInitialize
    /\ backoff = NoBackoff /\ desc = NoIsDescendant
    /\ \E src \in SourcePermissions, own \in SourceOwners, d \in DestinationPermissions :
        acl = [ NoCopyPermissions EXCEPT !.phase = "listSource", !.source = src,
                                         !.owners = own, !.dest = d ]

\* permissions = this.gDriveService.getPermissions(srcId).items, in try / catch
GetSourcePermissions ==
    /\ acl.phase = "listSource"
    /\ \E ok \in BOOLEAN :
        LET a == [ acl EXCEPT !.listed = ok,
                              !.permissions = IF ok THEN acl.source ELSE << >>,
                              !.failures = IF ok THEN @ ELSE @ + 1 ]
        IN  acl' = [ a EXCEPT !.i = 1,
                              !.phase = IF Len(a.permissions) > 0 THEN "insert"
                                        ELSE AfterPermissions(a) ]
    /\ UNCHANGED << jobAll, gds, ini, backoff, desc >>

\* one round of the loop over permissions: an owner with an e-mail address
\* is skipped, any other entry is inserted at the copy, in try / catch
InsertPermission ==
    /\ acl.phase = "insert"
    /\ LET p == acl.permissions[acl.i]
           skip == p.emailAddress /\ p.role = "owner"
       IN  \E ok \in IF skip THEN { TRUE } ELSE BOOLEAN :
            acl' = [ acl EXCEPT
                       !.dest = IF ok /\ ~skip THEN Grant(@, p.id, p.role) ELSE @,
                       !.failures = IF ok THEN @ ELSE @ + 1,
                       !.i = IF acl.i < Len(acl.permissions) THEN @ + 1 ELSE 1,
                       !.phase = IF acl.i < Len(acl.permissions) THEN @
                                 ELSE AfterPermissions(acl) ]
    /\ UNCHANGED << jobAll, gds, ini, backoff, desc >>

\* one round of the loop over owners: a writer grant, in try / catch
InsertOwnerAsWriter ==
    /\ acl.phase = "owners"
    /\ \E ok \in BOOLEAN :
        acl' = [ acl EXCEPT
                   !.dest = IF ok THEN Grant(@, acl.owners[acl.i], "writer") ELSE @,
                   !.failures = IF ok THEN @ ELSE @ + 1,
                   !.i = IF acl.i < Len(acl.owners) THEN @ + 1 ELSE 1,
                   !.phase = IF acl.i < Len(acl.owners) THEN @ ELSE "listDest" ]
    /\ UNCHANGED << jobAll, gds, ini, backoff, desc >>

\* destPermissions = this.gDriveService.getPermissions(destId).items, in try / catch
GetDestPermissions ==
    /\ acl.phase = "listDest"
    /\ \E ok \in BOOLEAN :
        acl' = [ acl EXCEPT
                   !.destPermissions = IF ok THEN ListOf(acl.dest) ELSE << >>,
                   !.failures = IF ok THEN @ ELSE @ + 1,
                   !.i = 1,
                   !.phase = IF ok /\ Len(ListOf(acl.dest)) > 0 THEN "remove" ELSE "done" ]
    /\ UNCHANGED << jobAll, gds, ini, backoff, desc >>

\* one round of the loop over destPermissions, not in try / catch: the inner
\* loop reads permissions.length, which throws if the source list was not
\* obtained; an entry that no source entry matches and that is not an owner
\* is removed at the last source entry, and a failing removal throws
RemovePermission ==
    /\ acl.phase = "remove"
    /\ LET d == acl.destPermissions[acl.i]
           n == Len(acl.permissions)
           matched == \E j \in 1..n : acl.permissions[j].id = d.id
           remove == n > 0 /\ ~matched /\ d.role # "owner"
           next == IF acl.i < Len(acl.destPermissions) THEN "remove" ELSE "done"
       IN  IF ~acl.listed
           THEN acl' = [ acl EXCEPT !.phase = "threw" ]
           ELSE \E ok \in IF remove THEN BOOLEAN ELSE { TRUE } :
                acl' = [ acl EXCEPT
                           !.dest = IF remove /\ ok THEN Revoke(@, d.id) ELSE @,
                           !.failures = IF ok THEN @ ELSE @ + 1,
                           !.i = IF ok /\ next = "remove" THEN @ + 1 ELSE @,
                           !.phase = IF ok THEN next ELSE "threw" ]
    /\ UNCHANGED << jobAll, gds, ini, backoff, desc >>

NextCopyPermissions ==
    \/ GetSourcePermissions
    \/ InsertPermission
    \/ InsertOwnerAsWriter
    \/ GetDestPermissions
    \/ RemovePermission

SpecCopyPermissions == InitCopyPermissions /\ [][NextCopyPermissions]_vars

-----------------------------------------------------------------------------
(* Util.exponentialBackoff(func, errorMsg): one attempt per step *)

InitBackoff ==
    /\ InitJob /\ tree = TreeSmall /\ ~copyPermissions
    /\ gds = NewGDriveService /\ ini = NoInitialize /\ acl = NoCopyPermissions
    /\ backoff = [ NoBackoff EXCEPT !.status = "run" ]
    /\ desc = NoIsDescendant

\* try { return func() }
BackoffReturns ==
    /\ backoff.status = "run"
    /\ backoff.n < BackoffAttempts
    /\ backoff' = [ backoff EXCEPT !.status = "returned",
                                   !.calls = @ + 1,
                                   !.result = << "value", backoff.calls + 1 >> ]
    /\ UNCHANGED << jobAll, gds, ini, acl, desc >>

\* catch (e): log the error; after the last attempt log errorMsg and rethrow
BackoffGivesUp ==
    /\ backoff.status = "run"
    /\ backoff.n < BackoffAttempts
    /\ backoff.n = BackoffLast
    /\ backoff' = [ backoff EXCEPT !.status = "threw",
                                   !.calls = @ + 1,
                                   !.logged = @ \o << << "error", backoff.calls + 1 >>,
                                                      << "errorMsg", 0 >> >>,
                                   !.thrown = << "error", backoff.calls + 1 >> ]
    /\ UNCHANGED << jobAll, gds, ini, acl, desc >>

\* catch (e): log the error, sleep, n++
BackoffRetries ==
    /\ backoff.status = "run"
    /\ backoff.n < BackoffAttempts
    /\ backoff.n # BackoffLast
    /\ \E jitter \in Jitter :
        backoff' = [ backoff EXCEPT !.calls = @ + 1,
                                   !.n = @ + 1,
                                   !.logged = Append(@, << "error", backoff.calls + 1 >>),
                                   !.sleeps = Append(@, BackoffSleep(backoff.n, jitter)) ]
    /\ UNCHANGED << jobAll, gds, ini, acl, desc >>

NextBackoff == BackoffReturns \/ BackoffGivesUp \/ BackoffRetries

SpecBackoff == InitBackoff /\ [][NextBackoff]_vars

-----------------------------------------------------------------------------
(* FileService.isDescendant(maybeChildIDs, maybeParentID) as a function *)

\* the lists of at most MaxIds folder ids
IdLists == UNION { [ 1..n -> Folders ] : n \in 0..MaxIds }

InitIsDescendant ==
    /\ InitJob /\ tree = TreeSmall /\ ~copyPermissions
    /\ gds = NewGDriveService /\ ini = NoInitialize /\ acl = NoCopyPermissions
    /\ backoff = NoBackoff
    /\ \E g \in Graphs, ids \in IdLists, t \in Folders :
        desc = [ NoIsDescendant EXCEPT !.phase = "call", !.graph = g, !.ids = ids,
                                       !.target = t ]

\* the call: it returns true or false, or it never returns ("loop")
CallIsDescendant ==
    /\ desc.phase = "call"
    /\ LET r == IsDescendant(desc.graph, desc.ids, desc.target)
       IN  desc' = [ desc EXCEPT !.phase = "done", !.res = r.res,
                                 !.calls = Len(r.calls) ]
    /\ UNCHANGED << jobAll, gds, ini, acl, backoff >>

SpecIsDescendant == InitIsDescendant /\ [][CallIsDescendant]_vars

-----------------------------------------------------------------------------
(* Vocabulary of the properties *)

Entries(queue) == { queue[n] : n \in 1..Len(queue) }

Copied(i) == Copies(i) >= 1

\* the item went through the per-item routine and did not stay in its page
Processed(p) == { i \in Ids : Copied(i) } \cup ItemIds(p.retryQueue) \cup permFailed

\* an item whose parent folder exists in the destination
ParentCopied(i) == ParentOf(i) = Root \/ Copied(ParentOf(i))

InTraversalLoop == pc \in { "do", "procFileList", "endDo" }

IsSuffix(s, t) == Len(s) <= Len(t) /\ SubSeq(t, Len(t) - Len(s) + 1, Len(t)) = s

IsPrefix(s, t) == Len(s) <= Len(t) /\ SubSeq(t, 1, Len(s)) = s

-----------------------------------------------------------------------------
(* C1: a copy() invocation finalizes the job as Complete only in a state    *)
(* where pending (properties.remaining) is empty, no continuation cursor    *)
(* is outstanding and retryQueue is empty.                                  *)
C1_CompleteOnlyWhenDrained ==
    logComplete =>
        /\ Len(properties.remaining) = 0
        /\ properties.pageToken = NoToken
        /\ Len(properties.retryQueue) = 0

(* C2: when the job reaches Complete, every source item reachable from the  *)
(* root (its parent exists in the destination) has been copied or logged    *)
(* as a permanent failure, every copied folder has its idMap entry, and no  *)
(* copied folder's children are left unlisted.                              *)
C2_CompleteCopiesWholeTree ==
    logComplete =>
        \A i \in Ids :
            ParentCopied(i) =>
                /\ Copied(i) \/ i \in permFailed
                /\ i \in seen
                /\ (IsFolder(i) /\ Copied(i)) => i \in DOMAIN properties.map

ParentsMapped(p) ==
    /\ \A n \in 1..Len(p.remaining) : p.remaining[n] \in DOMAIN p.map
    /\ \A i \in ItemIds(p.leftovers.items) \cup ItemIds(p.retryQueue) :
           ParentOf(i) \in DOMAIN p.map

C4_ParentFirst ==
    /\ \A e \in drive : e.parent # UndefDest
    /\ ParentsMapped(properties)
    /\ ParentsMapped(doc)
    /\ \A i \in ItemIds(fileList.items) : ParentOf(i) \in DOMAIN properties.map

C4_Witness ==
    \E e \in drive :
        /\ ParentOf(e.src) # Root
        /\ e.parent = properties.map[ParentOf(e.src)]
        /\ e.parent # DestRoot

C6_CheckpointExact ==
    (pc = "idle" /\ ~logComplete) =>
        /\ ItemIds(doc.leftovers.items) = seen \ Processed(doc)
        /\ doc.leftovers.present => doc.pageToken = doc.leftovers.nextPageToken
        /\ Len(doc.leftovers.items) > 0 =>
              \E k \in 0..Cardinality(Ids) :
                  LET f == ParentOf(doc.leftovers.items[1].id)
                  IN  /\ IsPrefix(doc.leftovers.items, FreshItems(PageIds(f, k)))
                      /\ doc.leftovers.nextPageToken = NextToken(f, k)

C6_LeftoverStep ==
    LET left == properties.leftovers.items
        last == left[Len(left)].id
    IN  (/\ pc # "idle"
         /\ Len(left) > 0
         /\ << drive, permFailed, fails >>' # << drive, permFailed, fails >>)
        => /\ pc = "procLeftovers"
           /\ properties'.leftovers.items = SubSeq(left, 1, Len(left) - 1)
           /\ \/ /\ drive' = drive \cup { [ id |-> << last, 1 >>, src |-> last,
                                          parent |-> properties.map[ParentOf(last)] ] }
                 /\ fails' = fails
              \/ /\ fails' = fails + 1
                 /\ properties'.retryQueue[1].id = last
                 /\ drive' = drive

(* C6 as stated: ... and the next invocation processes exactly the items   *)
(* of the leftover page: when it ends without the user having stopped it,   *)
(* every item of the leftover page it loaded has gone through the per-item  *)
(* routine.                                                                 *)
C6_NextInvocationFinishesPage ==
    /\ C6_CheckpointExact
    /\ (pc = "cleanup" /\ ~timer.stop)
           => ItemIds(doc.leftovers.items) \subseteq Processed(properties)

(* C6 amended: the checkpoint is exact as above; the next invocation        *)
(* processes the items of the leftover page before any other item, each     *)
(* once, and has processed all of them when it goes on to pending; if it    *)
(* is stopped itself (timer or stop flag) before the page is empty, the     *)
(* unprocessed rest is checkpointed again as the leftover page.             *)
C6_ResumesLeftoverPage ==
    /\ [](C6_CheckpointExact)
    /\ [](pc = "while" /\ CanContinue(timer) => Len(properties.leftovers.items) = 0)
    /\ [][C6_LeftoverStep]_vars

C6_Witness ==
    /\ pc = "while"
    /\ CanContinue(timer)
    /\ Len(doc.leftovers.items) > 0
    /\ doc.pageToken # NoToken
    /\ Len(properties.leftovers.items) = 0
    /\ \A i \in ItemIds(doc.leftovers.items) : Copies(i) = 1

(* C7: a listing call that carries a continuation cursor is issued for the  *)
(* folder whose listing produced the cursor.                                *)
C7_CursorSentForItsFolder ==
    pc = "do" => CursorMatches(currFolder, properties.pageToken)

\* the retryQueue entries a step takes out of the queue
Retried == Entries(properties.retryQueue) \ Entries(properties'.retryQueue)

(* C8 as stated: an item that failed 4 consecutive times never appears in   *)
(* retryQueue after its 3rd retry attempt, in memory or in a checkpoint.    *)
C8_NeverQueuedAfterThirdRetry ==
    \A e \in Entries(properties.retryQueue) \cup Entries(doc.retryQueue) :
        e.numberOfAttempts <= maxNumberOfAttempts

(* C8 amended: after its 3rd retry fails the item is queued once more, with *)
(* counter 4, and a checkpoint may hold it; the next time it is taken from  *)
(* the queue it is logged as a permanent failure and dropped without a copy *)
(* call, and it is never queued or copied afterwards.                       *)
C8_DropStep ==
    pc = "procRetries" =>
        \A e \in Retried :
            IF e.numberOfAttempts > maxNumberOfAttempts
            THEN /\ permFailed' = permFailed \cup { e.id }
                 /\ drive' = drive
                 /\ fails' = fails
                 /\ e.id \notin ItemIds(properties'.retryQueue)
            ELSE /\ permFailed' = permFailed
                 /\ drive' # drive \/ fails' = fails + 1

C8_RetryCeiling ==
    /\ [](\A e \in Entries(properties.retryQueue) \cup Entries(doc.retryQueue) :
              e.numberOfAttempts > maxNumberOfAttempts
                  => e.numberOfAttempts = maxNumberOfAttempts + 1)
    /\ [](\A i \in permFailed : i \notin ItemIds(properties.retryQueue) /\ ~Copied(i))
    /\ [][C8_DropStep]_vars

C8_Witness ==
    \E e \in Entries(doc.retryQueue) :
        /\ e.numberOfAttempts = maxNumberOfAttempts + 1
        /\ e.id \in permFailed

C10_ThrowStep ==
    fails' = fails + 1 =>
        \E which \in Lists :
            LET items == ItemsOf(which)
                item == items[Len(items)]
                front == SubSeq(items, 1, Len(items) - 1)
                queue == properties.retryQueue
                head == properties'.retryQueue[1]
            IN  /\ pc = ProcPc(which)
                /\ pc' = pc
                /\ head.id = item.id
                /\ head.numberOfAttempts =
                       IF which = "retryQueue" THEN item.numberOfAttempts + 1 ELSE 1
                /\ Tail(properties'.retryQueue) =
                       IF which = "retryQueue" THEN front ELSE queue
                /\ which # "retryQueue" => ItemsOf(which)' = front
                /\ properties'.remaining = properties.remaining
                /\ properties'.map = properties.map
                /\ drive' = drive

C10_FailureDoesNotAbort == [][C10_ThrowStep]_vars

(* C10 as stated, the part about pending: the folders that were in pending  *)
(* when a call threw are still processed in the same invocation, time       *)
(* permitting: an invocation that reaches cleanup with the timer still      *)
(* allowing work has taken every such folder from pending.                  *)
C10_PendingStillProcessed ==
    (pc = "cleanup" /\ CanContinue(timer)) =>
        \A n \in 1..Len(properties.remaining) : properties.remaining[n] \notin owed

C10_Witness ==
    /\ pc = "procFileList"
    /\ ~doc.leftovers.present
    /\ fails = 1
    /\ Len(properties.retryQueue) = 1
    /\ properties.retryQueue[1].id = 2
    /\ properties.retryQueue[1].numberOfAttempts = 1
    /\ ParentOf(1) = ParentOf(2)
    /\ Copies(1) = 1

(* C11: copyPermissions is called for an item only when the item's own copy *)
(* call returned in the same iteration, the option copyPermissions is set   *)
(* and the item's kind is native, and the destination id passed is the id   *)
(* of that item's new copy; with the option off no call is ever issued.     *)
C11_PermissionsOnlyForOwnCopy ==
    \A c \in permCalls :
        /\ copyPermissions
        /\ IsNative(c.src)
        /\ \E e \in drive : e.src = c.src /\ e.id = c.dest

\* a step in which a copy or folder-creation call is issued
ItemCallStep == drive' # drive \/ fails' # fails

\* a step in which a listing call is issued
ListingCallStep == pc = "do" /\ pc' # "do"

(* C12 as stated, the bound: after an item has been processed, the runtime  *)
(* exceeds the quantum ceiling by at most the duration of that one item.    *)
C12_OvershootOneItem ==
    [][ ItemCallStep => timer'.runtime - MAX_RUNTIME <= timer'.now - timer.now ]_vars

(* C12 amended: once Timer.update has observed the ceiling or the stop      *)
(* flag, the invocation issues no further copy, folder-creation, listing    *)
(* or permission call; the timer is re-evaluated after every item for       *)
(* which a call is issued; a call is issued only when the last observed     *)
(* runtime was below the ceiling, at most one listing call earlier, so      *)
(* the runtime exceeds the ceiling by at most the duration of one listing   *)
(* call plus one item.                                                      *)
C12_NoCallAfterStop ==
    (pc # "idle" /\ ~CanContinue(timer)) =>
        /\ ~ItemCallStep
        /\ ~ListingCallStep
        /\ seen' = seen
        /\ permCalls' = permCalls

C12_ItemCallTimed ==
    ItemCallStep =>
        /\ timer.runtime < MAX_RUNTIME
        /\ ~timer.stop
        /\ timer.now - timer.runtime <= MaxListDur
        /\ timer'.now - timer.now <= MaxDur
        /\ timer' = TimerUpdate(timer'.now, stopFlag)

C12_QuantumRespect ==
    /\ [][C12_NoCallAfterStop]_vars
    /\ [][C12_ItemCallTimed]_vars
    /\ [](timer.runtime < MAX_RUNTIME + MaxListDur + MaxDur)

C12_Witness ==
    /\ pc = "cleanup"
    /\ ~timer.stop
    /\ timer.runtime = MAX_RUNTIME - 1 + MaxListDur + MaxDur

(* C13: whenever an invocation has created its trigger and the cumulative   *)
(* runtime it loaded has crossed MAX_RUNTIME_PER_DAY, the delay of that     *)
(* trigger is Timer.oneDay; the short interval (sixMinutes less the         *)
(* runtime so far) is used only when the loaded cumulative runtime is       *)
(* below the daily ceiling; no other delay is ever used.                    *)
C13_QuotaBackoff ==
    pc # "idle" =>
        /\ properties.totalRuntime >= MAX_RUNTIME_PER_DAY => duration = oneDay
        /\ duration # oneDay =>
              /\ properties.totalRuntime < MAX_RUNTIME_PER_DAY
              /\ duration = sixMinutes
        /\ duration \in { sixMinutes, oneDay }

C13_Witness ==
    /\ pc = "handleLeftovers"
    /\ properties.totalRuntime >= MAX_RUNTIME_PER_DAY
    /\ duration = oneDay

\* a step that ends an invocation suspended by the quantum, without user stop
SuspendedByTimerStep ==
    /\ pc = "cleanup" /\ pc' = "idle"
    /\ timer.timeIsUp /\ ~timer.stop
    /\ ~logComplete'

\* the checkpoint document holds the progress of the invocation that ends
CheckpointHoldsProgress ==
    /\ doc' = properties'
    /\ doc'.map = properties.map
    /\ doc'.remaining = properties.remaining
    /\ doc'.retryQueue = properties.retryQueue
    /\ doc'.leftovers = IF fileList.present THEN fileList ELSE properties.leftovers
    /\ doc'.leftovers.present => doc'.pageToken = doc'.leftovers.nextPageToken
    /\ doc'.totalRuntime = IF properties.isOverMaxRuntime THEN 0
                           ELSE properties.totalRuntime + timer.runtime

OneInvocationScheduled == triggers' = { triggerId } /\ triggerId' = triggerId

CompleteStep == pc = "cleanup" /\ ~logComplete /\ logComplete'

\* the trigger of the invocation is deleted, nothing stays scheduled and the
\* checkpoint document is not written
CompleteUnschedules ==
    /\ triggerId \notin triggers'
    /\ triggers' = {}
    /\ ~manualStart'
    /\ doc' = doc

StopObservedAtNextCheck ==
    /\ ItemCallStep => timer'.stop = stopFlag
    /\ (pc = "idle" /\ pc' # "idle") => timer'.stop = stopFlag

\* an invocation that has observed the flag processes no further item
StopEndsProcessing ==
    (pc # "idle" /\ timer.stop) =>
        /\ ~ItemCallStep /\ ~ListingCallStep
        /\ permFailed' = permFailed
        /\ timer' = timer

\* it ends by saving the checkpoint and deleting the scheduled trigger
StopSavesAndUnschedules ==
    (pc = "cleanup" /\ pc' = "idle" /\ timer.stop) =>
        /\ ~logComplete'
        /\ doc' = properties'
        /\ doc'.remaining = properties.remaining
        /\ doc'.retryQueue = properties.retryQueue
        /\ triggers' = {}
        /\ ~manualStart'

PreviousRequest == IF gds.calls >= 2 THEN gds.prevStart ELSE 0

(* C19: the remote calls made through one GDriveService instance start at   *)
(* least minElapsed apart, whatever the operations are; a call that arrives *)
(* sooner than minElapsed after the previous start sleeps exactly the       *)
(* difference and starts then, any other call starts at once.               *)
C19_RateLimiterFloor ==
    gds.calls >= 1 =>
        /\ gds.lastStart - PreviousRequest >= minElapsed
        /\ gds.lastStart = gds.arrival + gds.slept
        /\ gds.arrival - PreviousRequest < minElapsed =>
              gds.slept = minElapsed - (gds.arrival - PreviousRequest)
        /\ gds.arrival - PreviousRequest >= minElapsed => gds.slept = 0

C19_Witness ==
    /\ gds.calls >= 2
    /\ gds.op = "copyFile"
    /\ gds.slept = 30
    /\ gds.lastStart - gds.prevStart = minElapsed

RECURSIVE Ancestors(_, _)
\* the folders above folder f in parent graph g, through every parent link
Ancestors(g, f) ==
    LET ps == { g[f][j] : j \in 1..Len(g[f]) }
    IN  ps \cup UNION { Ancestors(g, p) : p \in ps }

\* the destination chosen in the options is the source or lies inside it
DestinationInsideSource ==
    /\ ini.copyTo = "custom"
    /\ ini.destParent = ini.src \/ ini.src \in Ancestors(ini.graph, ini.destParent)

(* C17: when the selected destination is the source folder or a descendant  *)
(* of it, initialize() fails with the Descendant error and creates no       *)
(* destination folder, progress log or checkpoint record.                   *)
C17_DescendantRejected ==
    (DestinationInsideSource /\ ini.phase # "start") =>
        /\ ini.phase = "failed" /\ ini.error = "Descendant"
        /\ ini.created = {}

(* C18: every remote storage call is made by GDriveService.throttle.        *)
C18_AllCallsThrottled ==
    \A k \in 1..Len(ini.calls) : ini.calls[k].throttled

(* C20: a failure of a permission operation inside copyPermissions never    *)
(* propagates out of copyPermissions: whatever operations fail, the call    *)
(* goes on with the remaining entries and returns.                          *)
C20_FailuresSwallowed == acl.phase # "threw"

-----------------------------------------------------------------------------
(* C21: failures of Properties.save in Util.saveState *)

\* a step of Util.cleanup in which Properties.save threw
SaveFailedStep == pc = "cleanup" /\ pc' = "idle" /\ saveFailures' = saveFailures + 1

\* the trigger this invocation scheduled is among the project triggers
TriggerScheduled == triggerId \in triggers \cup firedTriggers

C21_WitnessOther ==
    /\ pc = "idle" /\ saveFailures > 0 /\ ~timer.stop
    /\ saveOutcome = "error" /\ TriggerScheduled

-----------------------------------------------------------------------------
(* C26: Util.exponentialBackoff *)

\* a step of exponentialBackoff: one more call of func
BackoffStep == backoff' # backoff => backoff'.calls = backoff.calls + 1

\* the k-th sleep lasts 2^(k-1) seconds plus at most one second
SleepsDouble ==
    \A k \in 1..Len(backoff.sleeps) :
        /\ backoff.sleeps[k] >= (2 ^ (k - 1)) * 1000
        /\ backoff.sleeps[k] <= (2 ^ (k - 1)) * 1000 + 1000

\* C26: exponentialBackoff calls func at most 6 times; it returns the value of
\* the first call that does not throw and calls nothing after it; after 6
\* throwing calls it logs errorMsg and rethrows the last error; it sleeps only
\* between two attempts (5 sleeps at most, each twice the one before, plus a
\* jitter); every step is one more call, so it ends within 6 steps
C26_ExponentialBackoff ==
    /\ [](/\ backoff.calls <= 6
          /\ Len(backoff.sleeps) <= 5
          /\ SleepsDouble
          /\ backoff.status = "run" =>
                Len(backoff.sleeps) = backoff.calls /\ backoff.calls < 6
          /\ backoff.status = "returned" =>
                /\ backoff.result = << "value", backoff.calls >>
                /\ Len(backoff.sleeps) = backoff.calls - 1
                /\ Len(backoff.logged) = backoff.calls - 1
          /\ backoff.status = "threw" =>
                /\ backoff.calls = 6
                /\ backoff.thrown = << "error", 6 >>
                /\ backoff.logged[Len(backoff.logged)] = << "errorMsg", 0 >>
                /\ Len(backoff.sleeps) = 5)
    /\ [][/\ BackoffStep
          /\ backoff.status # "run" => backoff' = backoff]_vars

\* func threw five times and returned at the sixth call, after sleeps of
\* between 1 and 17 seconds
C26_Witness ==
    /\ backoff.status = "returned" /\ backoff.calls = 6
    /\ Len(backoff.sleeps) = 5
    /\ backoff.sleeps[1] = 1500 /\ backoff.sleeps[5] = 17000

\* all six calls threw
C26_WitnessThrew == backoff.status = "threw" /\ backoff.calls = 6

-----------------------------------------------------------------------------
(* C22: a failure to register the next invocation *)

\* copy() ends because the creation of the next trigger failed once
CreateTriggerFailedStep ==
    startFailures'.createTrigger = startFailures.createTrigger + 1

\* C22: a single failure of createTrigger never leaves a job that is neither
\* complete nor stopped without a scheduled next invocation
C22_TriggerFailureRetried ==
    [][CreateTriggerFailedStep /\ ~stopFlag /\ ~logComplete => triggers' # {}]_vars

-----------------------------------------------------------------------------
(* C27: a checkpoint load that fails *)

\* copy() ends because properties.load failed after its retries
LoadFailedStep == startFailures'.load = startFailures.load + 1

\* C27: an invocation whose load fails issues no listing, copy, folder-creation
\* or permission call, writes neither the checkpoint nor the stop flag, and
\* ends: the checkpoint after it equals the checkpoint before it
C27_LoadFailureLeavesProgress ==
    [][LoadFailedStep =>
        /\ doc' = doc /\ docTrashed' = docTrashed /\ logComplete' = logComplete
        /\ seen' = seen /\ drive' = drive /\ fails' = fails
        /\ permCalls' = permCalls /\ permFailed' = permFailed
        /\ stopFlag' = stopFlag
        /\ pc' = "idle"
      ]_vars

\* a load failed in a job that had copied something and was suspended with
\* work left; the load-failure counter is at its limit
C27_Witness ==
    /\ pc = "idle" /\ startFailures.load > 0 /\ trials = MaxTrials
    /\ drive # {} /\ doc.remaining # << >> /\ doc # InitialProperties
    /\ triggers = {}

-----------------------------------------------------------------------------
(* C23: the state initialize() leaves *)

\* C23: after a successful initialize the checkpoint has pending = [source
\* root] and idMap = {source root: new destination folder}, an empty retry
\* queue and no leftover page; the stop flag is 'false', trials is 0 and no
\* trigger is scheduled
C23_InitialCheckpoint ==
    ini.phase = "done" =>
        /\ doc.remaining = << ini.src >>
        /\ DOMAIN doc.map = { ini.src }
        /\ doc.map[ini.src] = << ini.src, 1 >>
        /\ "destFolder" \in ini.created
        /\ doc.retryQueue = << >>
        /\ doc.leftovers = NoList /\ doc.pageToken = NoToken
        /\ ~stopFlag
        /\ trials = 0
        /\ triggers = {}

\* initialize() succeeded where an earlier job had left a checkpoint with a
\* retry queue, a set stop flag, a load-failure count and two triggers
C23_Witness ==
    /\ ini.phase = "done" /\ ini.src = 3
    /\ triggerId = 1 /\ doc = SavedOptions(3, << 3, 1 >>)

-----------------------------------------------------------------------------
(* C24: the attempt counter *)

\* the item for which this step issues a copy / folder-creation call
Attempted == { i \in Ids : attempts'[i] # attempts[i] }

\* the counter the item of this step carried when it was popped
PoppedCounter(i) ==
    IF pc = "procRetries"
    THEN (CHOOSE e \in Retried : e.id = i).numberOfAttempts
    ELSE 0

\* a call is issued only for an item whose counter is at most 3; if the call
\* throws, the item is queued with its counter increased by 1 (1 the first time)
AttemptStep ==
    \A i \in Attempted :
        /\ attempts'[i] = attempts[i] + 1
        /\ PoppedCounter(i) <= maxNumberOfAttempts
        /\ PoppedCounter(i) = attempts[i]
        /\ fails' # fails =>
              \E e \in Entries(properties'.retryQueue) :
                  /\ e.id = i /\ e.stamp = fails'
                  /\ e.numberOfAttempts = PoppedCounter(i) + 1

-----------------------------------------------------------------------------
(* C25: the permissions of the copy after copyPermissions *)

\* the entries of the source that are not owner entries, id -> role
SourceGrants ==
    { << acl.source[k].id, acl.source[k].role >> :
        k \in { n \in 1..Len(acl.source) : acl.source[n].role # "owner" } }

\* a writer grant for every owner handed to copyPermissions
OwnerGrants == { << acl.owners[k], "writer" >> : k \in 1..Len(acl.owners) }

\* the owner entries of the copy
DestOwnerEntries == { << x, acl.dest[x] >> : x \in { y \in DOMAIN acl.dest : acl.dest[y] = "owner" } }

\* C25: after a call of copyPermissions in which every permission operation
\* succeeded, the permissions of the copy are the non-owner entries of the
\* source, a writer grant for every source owner and the copy's own owner
\* entry, whatever the source list is, an empty one included
C25_AclConverges ==
    acl.phase = "done" /\ acl.failures = 0 =>
        { << x, acl.dest[x] >> : x \in DOMAIN acl.dest }
            = SourceGrants \cup OwnerGrants \cup DestOwnerEntries

-----------------------------------------------------------------------------
(* C28, C29: FileService.isDescendant *)

\* maybeParentID is one of maybeChildIDs or an ancestor of one of them
IsAncestorOfSome(g, ids, target) ==
    \E k \in 1..Len(ids) : ids[k] = target \/ target \in Ancestors(g, ids[k])

\* C28: isDescendant returns true if and only if maybeParentID is one of
\* maybeChildIDs or an ancestor of one of them through any chain of parent
\* links, second and later parents included
C28_IsDescendantCorrect ==
    desc.phase = "done" =>
        (desc.res = "true" <=> IsAncestorOfSome(desc.graph, desc.ids, desc.target))

\* C29: isDescendant returns after a bounded number of metadata fetches for
\* every acyclic parent graph and every list of ids; no list index is visited
\* again and again
C29_IsDescendantTerminates ==
    desc.phase = "done" => desc.res # "loop"

-----------------------------------------------------------------------------
(* C30: the job ends *)

\* C30: if every scheduled trigger fires, every load and save succeeds and no
\* stop is requested, the job reaches Complete, wherever the suspensions fall
\* and even when an item fails at every attempt
C30_EventuallyComplete == <>logComplete

-----------------------------------------------------------------------------
(* C31: the daily quota *)

\* the invocation has found the daily quota exhausted and has scheduled the
\* next invocation a day later
QuotaExhausted == pc # "idle" /\ properties.isOverMaxRuntime /\ duration = oneDay

\* the cumulative runtime is over the daily ceiling by at most one item
TotalRuntimeBounded(p) == p.totalRuntime <= MAX_RUNTIME_PER_DAY + MaxDur

\* no copy or folder-creation call is issued once the quota is found exhausted
C31_NoWorkAfterQuota == [][ QuotaExhausted => ~ItemCallStep ]_vars

\* the cumulative runtime, in the invocation and in the checkpoint, stays
\* within one item-processing duration of the daily ceiling
C31_TotalRuntimeBounded ==
    [](TotalRuntimeBounded(properties) /\ TotalRuntimeBounded(doc))

\* C31: the runtime accumulated in totalRuntime since its last reset never
\* exceeds MAX_RUNTIME_PER_DAY by more than one item-processing duration, and
\* an invocation that finds the daily quota exhausted and schedules the
\* one-day delay issues no further copy or folder-creation call
C31_DailyQuotaBound == C31_TotalRuntimeBounded /\ C31_NoWorkAfterQuota

-----------------------------------------------------------------------------
(* C32: a listing call that throws *)

\* every child of folder f has been returned by a listing call
ChildrenListed(f) == \A i \in Ids : ParentOf(i) = f => i \in seen

\* a call of getFiles for the first page of a folder threw
FirstPageFailedStep ==
    /\ pc = "do" /\ properties.pageToken = NoToken
    /\ listFailed' # listFailed

\* the job is marked Complete only when the children of every folder whose
\* listing call threw have been listed after all
C32_FailedFolderStillListed ==
    [](logComplete => \A f \in listFailed : ChildrenListed(f))

\* no earlier result stands in fileList as the result of the call that threw
C32_NoStaleResult == [][ FirstPageFailedStep => ~fileList'.present ]_vars

\* C32: when getFiles throws for a folder taken from pending or for a
\* continuation page, the children of that folder that were not listed yet are
\* listed later (the folder is not dropped from the traversal), and the result
\* of the listing of a previous folder is not taken as the result of that call
C32_FailedListingLosesNothing == C32_FailedFolderStillListed /\ C32_NoStaleResult

-----------------------------------------------------------------------------
(* C33: the triggers of the job *)

\* a step that records a new trigger under triggerId
NewTriggerStep == triggerId' # triggerId

-----------------------------------------------------------------------------
(* C34: rescheduling after load failures *)

\* a step that starts an invocation whose load succeeded
LoadSucceededStep == pc = "idle" /\ pc' # "idle"

\* C34: an invocation whose load fails schedules another invocation only while
\* 'trials' is below 5 and then adds one to it; a successful load leaves the
\* counter alone and only resume (or initialize) puts it back to 0; so the
\* counter never passes 5, and a load that fails at 5 leaves nothing scheduled
C34_LoadRetriesBounded ==
    /\ [](trials \in 0..MaxTrials)
    /\ [][ /\ LoadFailedStep =>
                IF trials < MaxTrials
                THEN trials' = trials + 1 /\ triggers' \subseteq { triggerId' }
                ELSE trials' = trials /\ triggers' = {}
           /\ LoadSucceededStep => trials' = trials
           /\ trials' > trials => LoadFailedStep
           /\ trials' < trials => resumes' = resumes + 1 /\ trials' = 0
         ]_vars

\* two invocations in a row failed to load: the first took the counter to its
\* limit and scheduled the second, the second has left nothing scheduled
C34_Witness ==
    /\ pc = "idle" /\ resumes = 0 /\ ~manualStart
    /\ startFailures = [ load |-> 2, createTrigger |-> 0 ]
    /\ trials = MaxTrials
    /\ triggers = {} /\ firedTriggers = {}
    /\ ~logComplete /\ ~stopFlag

====
